---- MODULE Spec2Model ----
(***************************************************************************)
(* A model of ORM.ts: the module-wide DataAccessObjectRepository, the      *)
(* per-type DataAccessObject with its local cache, the UUIdProviderDefault *)
(* identifier pool and the REST store the three talk to.                   *)
(*                                                                         *)
(* Every `await fetch(...)` is two steps: the store serves the request,    *)
(* then the operation continues with the response.  A fetch whose promise  *)
(* is dropped (sync, resetIdPool) puts a request in `net`, which the store *)
(* serves at any later time, or which fails without anybody noticing.      *)
(***************************************************************************)
EXTENDS Integers, Sequences, FiniteSets, TLC

VARIABLES
  orms,       \* the ORM objects constructed so far: orms[o] is ORM o's URL
  cur,        \* module variable DataAccessObjectRepository: index of the ORM whose repository it holds
  registry,   \* registry[o][t]: dataAccessObjectRegistry of ORM o's repository (0: no entry)
  daos,       \* the DataAccessObject instances constructed so far
  objId,      \* objId[r]: the id field of the caller's record instance r
  store,      \* the documents of the REST store, by URL (an absent document is not in the domain)
  net,        \* requests whose promise nobody awaits, not yet served
  ops,        \* ops[s]: the operation the caller runs in slot s
  nOps,       \* how many operations the caller has started
  prev,       \* what the operation before the newest one was, and how it ended
  issued,     \* the identifiers next has returned to save, in order (new: to an instance with id 0)
  lost        \* serial numbers of the operations one of whose requests failed

vars == <<orms, cur, registry, daos, objId, store, net, ops, nOps, prev, issued, lost>>

----------------------------------------------------------------------------
(* Bounds                                                                  *)

\* operations the caller starts
MaxOps == 2
\* operations the caller starts when it keeps to one record type
MaxLongOps == 3
\* saves the caller starts when it does not await them
MaxConcOps == 2
\* record instances the caller creates
NInsts == 2
\* operations the caller starts on record types whose collections meet
MaxPathOps == 2
\* deletes and reads the caller starts when it does not await them
MaxRaceOps == 2
\* ORM objects the caller constructs
MaxOrms == 2
\* operations the caller starts when it constructs more than one ORM
MaxOrmOps == 2
\* records of the collection an earlier session stored
MaxRows == 2
\* operations the caller starts at a store an earlier session filled
MaxStoredOps == 1

Slots == 1..2
Insts == 1..NInsts

----------------------------------------------------------------------------
(* Strings are sequences of characters.                                    *)

SAnimal == <<"A", "n", "i", "m", "a", "l">>
SPet == <<"P", "e", "t">>
SUuidClass == <<"U", "u", "i", "d">>
SAnimalPath == <<"a", "n", "i", "m", "a", "l">>
SCreatures == <<"/", "c", "r", "e", "a", "t", "u", "r", "e", "s">>
SJson == <<".", "j", "s", "o", "n">>
SUuid == <<"u", "u", "i", "d">>
SSlash == <<"/">>

URLs == {<<"d", "b">>}

\* the URLs the caller constructs further ORM objects with
OrmURLs == {<<"d", "b">>, <<"d", "2">>}

\* the identifiers of the records earlier sessions stored, and their pool document
StoredIds == {1, 2}

LowerChar(c) ==
  CASE c = "A" -> "a"
    [] c = "P" -> "p"
    [] c = "U" -> "u"
    [] OTHER -> c

ToLowerCase(s) == [i \in 1..Len(s) |-> LowerChar(s[i])]

StartsWith(s, p) == Len(s) >= Len(p) /\ SubSeq(s, 1, Len(p)) = p

Substring(s, from, to) == SubSeq(s, from + 1, to)

----------------------------------------------------------------------------
(* The record types the caller declares.                                   *)

Types == {"Animal", "AnimalOverride"}

\* record types whose collections meet: Pet declares the path of Animal, and the
\* lower-cased name of Uuid is the name of the identifier pool's document
PathTypes == {"Animal", "AnimalOverride", "Pet", "Uuid"}

Declared == Types \cup PathTypes

ClassName(t) ==
  CASE t = "Pet" -> SPet
    [] t = "Uuid" -> SUuidClass
    [] OTHER -> SAnimal

HasStaticPath(t) == t \in {"AnimalOverride", "Pet"}

StaticPath(t) == IF t = "Pet" THEN SAnimalPath ELSE SCreatures

----------------------------------------------------------------------------
(* JSON documents and the values operations hand back.                     *)

Null == [j |-> "null"]

JArray(rows) == [j |-> "array", rows |-> rows]

JPool(n) == [j |-> "object", uuid |-> n]

StoredPool == JPool(2)

Undefined == [t |-> "undefined"]

NoValue == [t |-> "none"]

\* a record object: ref is the caller's instance (0 for an object built from JSON)
Entity(ref, id) == [ref |-> ref, id |-> id]

\* e.id, read through the heap of the caller's instances
IdIn(heap, e) == IF e.ref = 0 THEN e.id ELSE heap[e.ref]

IdOf(e) == IdIn(objId, e)

RowIds(json) == IF json.j = "array" THEN {json.rows[i].id : i \in 1..Len(json.rows)} ELSE {}

\* JSON.stringify(this.dataObjects)
Stringify(list, heap) == JArray([i \in 1..Len(list) |-> [id |-> IdIn(heap, list[i])]])

\* findAll's loop over the parsed document: one object per property of the JSON
Entities(json) ==
  CASE json.j = "array" -> [i \in 1..Len(json.rows) |-> Entity(0, json.rows[i].id)]
    [] json.j = "object" -> <<Entity(0, -1)>>
    [] OTHER -> <<>>

\* what the document at path reads as
Read(path) == IF path \in DOMAIN store THEN store[path] ELSE Null

Put(path, json) == [p \in DOMAIN store \cup {path} |-> IF p = path THEN json ELSE store[p]]

Remove(path) == [p \in DOMAIN store \ {path} |-> store[p]]

\* the store serving a write request
Served(m) == IF m.method = "DELETE" THEN Remove(m.path) ELSE Put(m.path, m.body)

Request(method, path, body) == [method |-> method, path |-> path, body |-> body]

\* Array.prototype.indexOf, by object identity (0: not found, where the code has -1)
IndexOf(list, ref) ==
  IF \E i \in 1..Len(list) : list[i].ref = ref /\ ref # 0
    THEN CHOOSE i \in 1..Len(list) :
           /\ list[i].ref = ref
           /\ \A k \in 1..(i - 1) : list[k].ref # ref
    ELSE 0

\* find with a predicate every element passes
FindIndexAny(list, id) == IF Len(list) > 0 THEN 1 ELSE 0

\* Array.prototype.find on the id (0: undefined)
FindIndex(list, id) ==
  IF \E i \in 1..Len(list) : IdOf(list[i]) = id
    THEN CHOOSE i \in 1..Len(list) :
           /\ IdOf(list[i]) = id
           /\ \A k \in 1..(i - 1) : IdOf(list[k]) # id
    ELSE 0

\* list.splice(i): everything from i on is removed
SpliceRest(list, i) == SubSeq(list, 1, i - 1)

\* list.splice(i, 1)
Splice(list, i) == [k \in 1..(Len(list) - 1) |-> IF k < i THEN list[k] ELSE list[k + 1]]

\* list[i], undefined outside the array
At(list, i) == IF i \in 1..Len(list) THEN [t |-> "obj", v |-> list[i]] ELSE Undefined

----------------------------------------------------------------------------
(* DataAccessObject: path resolution                                       *)

\* initPath: the value this.path holds when it returns.  The substring that
\* drops a leading "/" is computed and its result thrown away.
InitPath(type) ==
  IF HasStaticPath(type)
    THEN LET path == StaticPath(type)
             unused == IF StartsWith(path, SSlash)
                         THEN Substring(path, 1, Len(path))
                         ELSE path
         IN  path
    ELSE ToLowerCase(ClassName(type))

GetPath(dao) == IF dao.needsInitPath THEN InitPath(dao.type) ELSE dao.path

\* the DataAccessObject after a call of getPath
Resolved(dao) == [dao EXCEPT !.path = GetPath(dao), !.needsInitPath = FALSE]

\* the URL built from a path all DataAccessObjects share
GetJSONPathShared(dao) == orms[dao.orm] \o SSlash \o SAnimalPath \o SJson

GetJSONPath(dao) == orms[dao.orm] \o SSlash \o GetPath(dao) \o SJson

\* UUIdProviderDefault.getPath
PoolPath(o) == orms[o] \o SSlash \o SUuid \o SJson

NewDao(type, o) ==
  [type |-> type, orm |-> o, needsInitPath |-> TRUE, path |-> <<>>, dataObjects |-> <<>>]

----------------------------------------------------------------------------
(* DataAccessObjectRepositoryDefault.fetch                                 *)

\* fetch without the lookup
UnregisteredAlways(t) == TRUE

\* dataAccessObject === undefined
Unregistered(t) == registry[cur][t] = 0

Fetched(t) == IF Unregistered(t) THEN Len(daos) + 1 ELSE registry[cur][t]

DaosAfterFetch(t) == IF Unregistered(t) THEN Append(daos, NewDao(t, cur)) ELSE daos

RegistryAfterFetch(t) ==
  IF Unregistered(t) THEN [registry EXCEPT ![cur][t] = Len(daos) + 1] ELSE registry

----------------------------------------------------------------------------
(* The caller's operations                                                 *)

Idle ==
  [kind |-> "none", pc |-> "idle", type |-> "none", dao |-> 0, arg |-> 0, id |-> 0, resp |-> Null,
   pool |-> Null, arr |-> <<>>, mine |-> FALSE, uuid |-> 0, ret |-> NoValue, reqs |-> <<>>,
   n |-> 0]

Running(s) == ops[s].pc \notin {"idle", "done", "failed"}

\* the array a local variable of operation s refers to
LocalArr(s) == IF ops[s].mine THEN daos[ops[s].dao].dataObjects ELSE ops[s].arr

\* the caller may start one more of at most max operations in slot s, with at most
\* k - 1 others running
CanStart(s, k, max) ==
  /\ nOps < max
  /\ ~Running(s)
  /\ Cardinality({x \in Slots : Running(x)}) < k
  /\ \A x \in Slots : x < s => Running(x)

\* what prev keeps of an operation (the reads are kept as one kind)
Summary(op) ==
  IF op.kind \in {"save", "delete", "deleteAll", "none"}
    THEN [kind |-> op.kind, pc |-> op.pc, arg |-> op.arg, dao |-> op.dao]
    ELSE [kind |-> "read", pc |-> op.pc, arg |-> 0, dao |-> op.dao]

\* this.dataObjects of DataAccessObject d is replaced by a new array: every other
\* operation that holds the old array in a local variable keeps the old array
Replaced(s, d, mineOp) ==
  [x \in Slots |->
     IF x = s THEN mineOp
     ELSE IF ops[x].dao = d /\ ops[x].mine
            THEN [ops[x] EXCEPT !.mine = FALSE, !.arr = daos[d].dataObjects]
            ELSE ops[x]]

Finish(op, ret) == [op EXCEPT !.pc = "done", !.ret = ret, !.mine = FALSE, !.arr = <<>>]

\* the module is loaded and the caller has constructed one ORM
Constructed ==
  /\ orms \in {<<u>> : u \in URLs}
  /\ cur = 1
  /\ registry = <<[t \in Declared |-> 0]>>
  /\ daos = <<>>
  /\ net = {}
  /\ ops = [s \in Slots |-> Idle]
  /\ nOps = 0
  /\ prev = Summary(Idle)
  /\ issued = <<>>
  /\ lost = {}

\* a store without documents
NoDocs == [p \in {} |-> Null]

\* a store an earlier session left with an identifier pool and no collection
PoolOnly == [p \in {PoolPath(1)} |-> StoredPool]

\* new record instances have no id yet
NewInsts == [r \in Insts |-> 0]

Init == Constructed /\ objId = NewInsts /\ store = NoDocs

\* the collections an earlier session may have stored
StoredRows == UNION {[1..n -> {[id |-> i] : i \in StoredIds}] : n \in 0..MaxRows}

\* the store with the Animal collection rows (no document when there is no row)
\* and the pool document pool (no document when Null)
StoredDocs(rows, pool) ==
  LET coll == orms[1] \o SSlash \o InitPath("Animal") \o SJson
  IN  [p \in (IF rows = <<>> THEN {} ELSE {coll}) \cup (IF pool = Null THEN {} ELSE {PoolPath(1)})
         |-> IF p = coll THEN JArray(rows) ELSE pool]

\* the caller's first instance may carry the id of a stored record
KnownInsts == {[r \in Insts |-> IF r = 1 THEN i ELSE 0] : i \in {0} \cup StoredIds}

\* the start at a store an earlier session filled
InitStored ==
  /\ Constructed
  /\ objId \in KnownInsts
  /\ store \in {StoredDocs(rows, pool) : rows \in StoredRows, pool \in {Null, StoredPool}}

\* the same start at a store that may hold an identifier pool already
InitConc == Constructed /\ objId = NewInsts /\ store \in {NoDocs, PoolOnly}

----------------------------------------------------------------------------
(* Steps of DataAccessObject and UUIdProviderDefault                       *)

\* sync: the PUT of the full local cache, whose promise is dropped
Sync(dao, heap, n) ==
  [method |-> "PUT", path |-> GetJSONPath(dao), body |-> Stringify(dao.dataObjects, heap),
   op |-> n]

Logged(m) == Request(m.method, m.path, m.body)

\* DataObject.<kind>(...) up to the fetch of findAll: the repository is asked for
\* the DataAccessObject, and findAll sends its GET
StartFindAll(s, k, max, kind, t, r, id) ==
  /\ CanStart(s, k, max)
  /\ LET d == Fetched(t)
         dao == DaosAfterFetch(t)[d]
     IN  /\ daos' = [DaosAfterFetch(t) EXCEPT ![d] = Resolved(dao)]
         /\ ops' = [ops EXCEPT ![s] =
                      [Idle EXCEPT !.kind = kind, !.pc = "wGet", !.type = t, !.dao = d, !.arg = r,
                                   !.id = id, !.n = nOps + 1,
                                   !.reqs = <<Request("GET", GetJSONPath(dao), Null)>>]]
  /\ registry' = RegistryAfterFetch(t)
  /\ nOps' = nOps + 1
  /\ prev' = Summary(ops[s])
  /\ UNCHANGED <<orms, cur, objId, store, net, issued, lost>>

FindAll(s, k, max, t) == StartFindAll(s, k, max, "findAll", t, 0, 0)

FindById(s, k, max, t, id) == StartFindAll(s, k, max, "findById", t, 0, id)

First(s, k, max, t) == StartFindAll(s, k, max, "first", t, 0, 0)

Last(s, k, max, t) == StartFindAll(s, k, max, "last", t, 0, 0)

Count(s, k, max, t) == StartFindAll(s, k, max, "count", t, 0, 0)

IsEmpty(s, k, max, t) == StartFindAll(s, k, max, "isEmpty", t, 0, 0)

IsNotEmpty(s, k, max, t) == StartFindAll(s, k, max, "isNotEmpty", t, 0, 0)

\* contains passes dataObject.id, read at the call
Contains(s, k, max, t, r) == StartFindAll(s, k, max, "contains", t, r, objId[r])

Delete(s, k, max, t, r) == StartFindAll(s, k, max, "delete", t, r, 0)

\* save that never looks into the local cache
SaveCreatesAlways(dao, r) == TRUE

\* save of an instance that is not an element of the local cache
SaveCreates(dao, r) == IndexOf(dao.dataObjects, r) = 0

\* save: an instance found in the local cache is synced at once (update); any
\* other starts with findAll
Save(s, k, max, t, r) ==
  IF SaveCreates(DaosAfterFetch(t)[Fetched(t)], r)
    THEN StartFindAll(s, k, max, "save", t, r, 0)
    ELSE /\ CanStart(s, k, max)
         /\ LET d == Fetched(t)
                dao == DaosAfterFetch(t)[d]
                put == Sync(dao, objId, nOps + 1)
            IN  /\ daos' = [DaosAfterFetch(t) EXCEPT ![d] = Resolved(dao)]
                /\ net' = net \cup {put}
                /\ ops' = [ops EXCEPT ![s] =
                             Finish([Idle EXCEPT !.kind = "save", !.type = t, !.dao = d, !.arg = r,
                                                 !.n = nOps + 1, !.reqs = <<Logged(put)>>],
                                    [t |-> "obj", v |-> Entity(r, 0)])]
         /\ registry' = RegistryAfterFetch(t)
         /\ nOps' = nOps + 1
         /\ prev' = Summary(ops[s])
         /\ UNCHANGED <<orms, cur, objId, store, issued, lost>>

\* deleteAll up to its fetch: the DELETE is sent and awaited
DeleteAll(s, k, max, t) ==
  /\ CanStart(s, k, max)
  /\ LET d == Fetched(t)
         dao == DaosAfterFetch(t)[d]
     IN  /\ daos' = [DaosAfterFetch(t) EXCEPT ![d] = Resolved(dao)]
         /\ ops' = [ops EXCEPT ![s] =
                      [Idle EXCEPT !.kind = "deleteAll", !.pc = "wDelete", !.type = t, !.dao = d,
                                   !.n = nOps + 1,
                                   !.reqs = <<Request("DELETE", GetJSONPath(dao), Null)>>]]
  /\ registry' = RegistryAfterFetch(t)
  /\ nOps' = nOps + 1
  /\ prev' = Summary(ops[s])
  /\ UNCHANGED <<orms, cur, objId, store, net, issued, lost>>

\* the store answers the GET of findAll
ServeGet(s) ==
  /\ ops[s].pc = "wGet"
  /\ ops' = [ops EXCEPT ![s].pc = "gotJson",
                        ![s].resp = Read(GetJSONPath(daos[ops[s].dao]))]
  /\ UNCHANGED <<orms, cur, registry, daos, objId, store, net, nOps, prev, issued, lost>>

\* findAll without the new array
RefreshedOnto(old, json) == old \o Entities(json)

\* this.dataObjects = [], then one push per property of the JSON
Refreshed(old, json) == Entities(json)

\* findAll after its awaits: a new array of new objects replaces the local cache
FindAllCont(s) ==
  /\ ops[s].pc = "gotJson"
  /\ LET d == ops[s].dao
     IN  /\ daos' = [daos EXCEPT ![d].dataObjects = Refreshed(@, ops[s].resp)]
         /\ ops' = Replaced(s, d, [ops[s] EXCEPT !.pc = "findAllRet", !.mine = TRUE])
  /\ UNCHANGED <<orms, cur, registry, objId, store, net, nOps, prev, issued, lost>>

ReadKinds ==
  {"findAll", "findById", "first", "last", "count", "isEmpty", "isNotEmpty", "contains"}

\* what a read operation returns from the array findAll gave it
ReadResult(kind, list, id) ==
  CASE kind = "findAll" -> [t |-> "arr", v |-> list]
    [] kind = "findById" -> At(list, FindIndex(list, id))
    [] kind = "contains" -> [t |-> "bool", v |-> At(list, FindIndex(list, id)).t # "undefined"]
    [] kind = "first" -> At(list, 1)
    [] kind = "last" -> IF Len(list) > 0 THEN At(list, Len(list)) ELSE Undefined
    [] kind = "count" -> [t |-> "num", v |-> Len(list)]
    [] kind = "isEmpty" -> [t |-> "bool", v |-> Len(list) = 0]
    [] OTHER -> [t |-> "bool", v |-> ~(Len(list) = 0)]

\* findAll, findById, first, last, count, isEmpty, isNotEmpty, contains after findAll
ReadCont(s) ==
  /\ ops[s].pc = "findAllRet"
  /\ ops[s].kind \in ReadKinds
  /\ ops' = [ops EXCEPT ![s] =
               Finish(ops[s], ReadResult(ops[s].kind, LocalArr(s), ops[s].id))]
  /\ UNCHANGED <<orms, cur, registry, daos, objId, store, net, nOps, prev, issued, lost>>

\* delete without its early return
NotFoundNever(list, id) == FALSE

\* delete: toBeDeleted is undefined
NotFound(list, id) == FindIndex(list, id) = 0

\* delete after findAll: find by id, splice the array findAll returned, sync
DeleteCont(s) ==
  /\ ops[s].pc = "findAllRet"
  /\ ops[s].kind = "delete"
  /\ LET d == ops[s].dao
         r == ops[s].arg
         list == LocalArr(s)
         cut == Splice(list, FindIndex(list, objId[r]))
         dao == IF ops[s].mine THEN [daos[d] EXCEPT !.dataObjects = cut] ELSE daos[d]
         put == Sync(dao, objId, ops[s].n)
     IN  IF NotFound(list, objId[r])
           THEN /\ ops' = [ops EXCEPT ![s] = Finish(ops[s], [t |-> "obj", v |-> Entity(r, 0)])]
                /\ UNCHANGED <<daos, net>>
           ELSE /\ daos' = [daos EXCEPT ![d] = dao]
                /\ net' = net \cup {put}
                /\ ops' = [ops EXCEPT ![s] =
                             Finish([ops[s] EXCEPT !.reqs = Append(@, Logged(put))],
                                    [t |-> "obj", v |-> Entity(r, 0)])]
  /\ UNCHANGED <<orms, cur, registry, objId, store, nOps, prev, issued, lost>>

\* save after findAll: getIdProvider().next() sends the GET of the identifier pool
SaveFetchPool(s) ==
  /\ ops[s].pc = "findAllRet"
  /\ ops[s].kind = "save"
  /\ ops' = [ops EXCEPT ![s].pc = "wPool", ![s].mine = FALSE,
                        ![s].reqs = Append(@, Request("GET", PoolPath(daos[ops[s].dao].orm), Null))]
  /\ UNCHANGED <<orms, cur, registry, daos, objId, store, net, nOps, prev, issued, lost>>

\* the store answers the GET of getIdPool
ServePool(s) ==
  /\ ops[s].pc = "wPool"
  /\ ops' = [ops EXCEPT ![s].pc = "gotPool",
                        ![s].pool = Read(PoolPath(daos[ops[s].dao].orm))]
  /\ UNCHANGED <<orms, cur, registry, daos, objId, store, net, nOps, prev, issued, lost>>

\* resetIdPool: the PATCH of { uuid: 1 }, whose promise is dropped
ResetIdPool(o, n) ==
  [method |-> "PATCH", path |-> PoolPath(o), body |-> JPool(1), op |-> n]

\* next without the increment
IncrementedNot(idPool) == idPool

\* idPool.uuid++
Incremented(idPool) == JPool(idPool.uuid + 1)

\* next after getIdPool: no pool document resets the pool; a pool document is
\* incremented and written back with an awaited PUT
NextCont(s) ==
  /\ ops[s].pc = "gotPool"
  /\ LET o == daos[ops[s].dao].orm
         patch == ResetIdPool(o, ops[s].n)
         idPool == Incremented(ops[s].pool)
     IN  IF ops[s].pool.j = "null"
           THEN /\ net' = net \cup {patch}
                /\ ops' = [ops EXCEPT ![s].pc = "nextRet", ![s].uuid = patch.body.uuid,
                                      ![s].reqs = Append(@, Logged(patch))]
           ELSE /\ net' = net
                /\ ops' = [ops EXCEPT ![s].pc = "wPoolPut", ![s].uuid = idPool.uuid,
                                      ![s].reqs = Append(@, Request("PUT", PoolPath(o), idPool))]
  /\ UNCHANGED <<orms, cur, registry, daos, objId, store, nOps, prev, issued, lost>>

\* the store serves the PUT of updateIdPool
ServePoolPut(s) ==
  /\ ops[s].pc = "wPoolPut"
  /\ store' = Put(PoolPath(daos[ops[s].dao].orm), JPool(ops[s].uuid))
  /\ ops' = [ops EXCEPT ![s].pc = "nextRet"]
  /\ UNCHANGED <<orms, cur, registry, daos, objId, net, nOps, prev, issued, lost>>

\* save without the push
PushedNot(list, r) == list

\* save with unshift in place of push
PushedFirst(list, r) == <<Entity(r, 0)>> \o list

\* this.dataObjects.push(dataObject)
Pushed(list, r) == Append(list, Entity(r, 0))

\* save after next: the id is assigned, the instance pushed on the local cache, sync
SaveCont(s) ==
  /\ ops[s].pc = "nextRet"
  /\ LET d == ops[s].dao
         r == ops[s].arg
         heap == [objId EXCEPT ![r] = ops[s].uuid]
         dao == [daos[d] EXCEPT !.dataObjects = Pushed(@, r)]
         put == Sync(dao, heap, ops[s].n)
     IN  /\ objId' = heap
         /\ daos' = [daos EXCEPT ![d] = dao]
         /\ net' = net \cup {put}
         /\ issued' = Append(issued, [orm |-> dao.orm, id |-> ops[s].uuid, new |-> objId[r] = 0])
         /\ ops' = [ops EXCEPT ![s] =
                      Finish([ops[s] EXCEPT !.reqs = Append(@, Logged(put))],
                             [t |-> "obj", v |-> Entity(r, 0)])]
  /\ UNCHANGED <<orms, cur, registry, store, nOps, prev, lost>>

\* the store serves the DELETE of deleteAll
ServeDelete(s) ==
  /\ ops[s].pc = "wDelete"
  /\ store' = Remove(GetJSONPath(daos[ops[s].dao]))
  /\ ops' = [ops EXCEPT ![s].pc = "deleted"]
  /\ UNCHANGED <<orms, cur, registry, daos, objId, net, nOps, prev, issued, lost>>

\* deleteAll after its await: an empty array replaces the local cache
DeleteAllCont(s) ==
  /\ ops[s].pc = "deleted"
  /\ daos' = [daos EXCEPT ![ops[s].dao].dataObjects = <<>>]
  /\ ops' = Replaced(s, ops[s].dao, Finish(ops[s], Undefined))
  /\ UNCHANGED <<orms, cur, registry, objId, store, net, nOps, prev, issued, lost>>

\* the rejection caught inside next, which then returns the pool's number
RejectedCaught(op) ==
  IF op.pc \in {"wPool", "wPoolPut"}
    THEN [op EXCEPT !.pc = "nextRet", !.mine = FALSE, !.arr = <<>>]
    ELSE [op EXCEPT !.pc = "failed", !.mine = FALSE, !.arr = <<>>]

\* the operation whose awaited fetch rejects: no await of the chain has a catch
Rejected(op) == [op EXCEPT !.pc = "failed", !.mine = FALSE, !.arr = <<>>]

\* an awaited fetch rejects: the rejection reaches the caller through every await
Reject(s) ==
  /\ ops[s].pc \in {"wGet", "wPool", "wPoolPut", "wDelete"}
  /\ ops' = [ops EXCEPT ![s] = Rejected(ops[s])]
  /\ lost' = lost \cup {ops[s].n}
  /\ UNCHANGED <<orms, cur, registry, daos, objId, store, net, nOps, prev, issued>>

\* the store serves a request nobody awaits
Deliver(m) ==
  /\ m \in net
  /\ store' = Served(m)
  /\ net' = net \ {m}
  /\ UNCHANGED <<orms, cur, registry, daos, objId, ops, nOps, prev, issued, lost>>

\* a request nobody awaits fails: its rejection is handled nowhere
Lose(m) ==
  /\ m \in net
  /\ net' = net \ {m}
  /\ lost' = lost \cup {m.op}
  /\ UNCHANGED <<orms, cur, registry, daos, objId, store, ops, nOps, prev, issued>>

\* a repository that takes over the registry of the one it replaces
NewRepositoryKept == registry[cur]

\* new DataAccessObjectRepositoryDefault(this): a registry without entries
NewRepository == [t \in Declared |-> 0]

\* new ORM(u): the module variable DataAccessObjectRepository is assigned a new
\* repository that holds the new ORM
NewORM(u) ==
  /\ Len(orms) < MaxOrms
  /\ orms' = Append(orms, u)
  /\ cur' = Len(orms) + 1
  /\ registry' = Append(registry, NewRepository)
  /\ UNCHANGED <<daos, objId, store, net, ops, nOps, prev, issued, lost>>

----------------------------------------------------------------------------
(* Specifications                                                          *)

FindIds == {1, 2}

\* the caller's calls on the record types T: at most max, at most k running at a time
Calls(k, max, T) ==
  \E s \in Slots, t \in T :
    \/ \E r \in Insts : Save(s, k, max, t, r)
    \/ \E r \in Insts : Delete(s, k, max, t, r)
    \/ DeleteAll(s, k, max, t)
    \/ FindAll(s, k, max, t)
    \/ \E id \in FindIds : FindById(s, k, max, t, id)
    \/ First(s, k, max, t)
    \/ Last(s, k, max, t)
    \/ Count(s, k, max, t)
    \/ IsEmpty(s, k, max, t)
    \/ IsNotEmpty(s, k, max, t)
    \/ \E r \in Insts : Contains(s, k, max, t, r)

Steps ==
  \/ \E s \in Slots :
       \/ ServeGet(s)
       \/ FindAllCont(s)
       \/ ReadCont(s)
       \/ DeleteCont(s)
       \/ SaveFetchPool(s)
       \/ ServePool(s)
       \/ NextCont(s)
       \/ ServePoolPut(s)
       \/ SaveCont(s)
       \/ ServeDelete(s)
       \/ DeleteAllCont(s)
       \/ Reject(s)
  \/ \E m \in net : Deliver(m)
  \/ \E m \in net : Lose(m)

\* a caller that awaits each operation before it starts the next
Next == Calls(1, MaxOps, Types) \/ Steps

Spec == Init /\ [][Next]_vars

\* the same caller, starting more operations, all on one record type
NextLong == Calls(1, MaxLongOps, {"Animal"}) \/ Steps

SpecLong == Init /\ [][NextLong]_vars

\* the caller that awaits each operation, at a store an earlier session filled
NextStored == Calls(1, MaxStoredOps, {"Animal"}) \/ Steps

SpecStored == InitStored /\ [][NextStored]_vars

\* the caller that awaits each operation, on record types whose collections meet,
\* with one record instance.  No save is started on Uuid.
NextPaths ==
  \/ \E s \in Slots, t \in PathTypes \ {"Uuid"} : Save(s, 1, MaxPathOps, t, 1)
  \/ \E s \in Slots, t \in PathTypes :
       \/ Delete(s, 1, MaxPathOps, t, 1)
       \/ DeleteAll(s, 1, MaxPathOps, t)
       \/ FindAll(s, 1, MaxPathOps, t)
  \/ Steps

SpecPaths == Init /\ [][NextPaths]_vars

\* the caller that awaits each operation and constructs further ORM objects
NextOrm ==
  \/ \E u \in OrmURLs : NewORM(u)
  \/ \E s \in Slots, t \in Types :
       \/ Save(s, 1, MaxOrmOps, t, 1)
       \/ FindAll(s, 1, MaxOrmOps, t)
  \/ \E s \in Slots :
       \/ ServeGet(s)
       \/ FindAllCont(s)
       \/ ReadCont(s)
       \/ SaveFetchPool(s)
       \/ ServePool(s)
       \/ NextCont(s)
       \/ ServePoolPut(s)
       \/ SaveCont(s)
       \/ Reject(s)
  \/ \E m \in net : Deliver(m)
  \/ \E m \in net : Lose(m)

SpecOrm == Init /\ [][NextOrm]_vars

\* a caller that starts a save while another is running
NextConc ==
  \/ \E s \in Slots, r \in Insts : Save(s, 2, MaxConcOps, "Animal", r)
  \/ \E s \in Slots :
       \/ ServeGet(s)
       \/ FindAllCont(s)
       \/ SaveFetchPool(s)
       \/ ServePool(s)
       \/ NextCont(s)
       \/ ServePoolPut(s)
       \/ SaveCont(s)
       \/ Reject(s)
  \/ \E m \in net : Deliver(m)
  \/ \E m \in net : Lose(m)

SpecConc == InitConc /\ [][NextConc]_vars

\* a caller that starts a delete or a findAll while another is running, at a
\* store an earlier session filled
NextRace ==
  \/ \E s \in Slots, r \in Insts : Delete(s, 2, MaxRaceOps, "Animal", r)
  \/ \E s \in Slots : FindAll(s, 2, MaxRaceOps, "Animal")
  \/ \E s \in Slots :
       \/ ServeGet(s)
       \/ FindAllCont(s)
       \/ ReadCont(s)
       \/ DeleteCont(s)
       \/ Reject(s)
  \/ \E m \in net : Deliver(m)
  \/ \E m \in net : Lose(m)

SpecRace == InitStored /\ [][NextRace]_vars

----------------------------------------------------------------------------
(* Properties                                                             *)

Done(s) == ops[s].pc = "done"

\* the collection document of record type t at the current ORM's store
Stored(t) == Read(orms[cur] \o SSlash \o InitPath(t) \o SJson)

\* C1: for a caller that awaits each operation, every create save of a
\* not-yet-saved record assigns an identifier strictly greater than every
\* identifier the provider returned before on that store connection.
C1_SaveAssignsGreaterId ==
  \A j \in 1..Len(issued) :
    issued[j].new =>
      \A i \in 1..(j - 1) : issued[i].orm = issued[j].orm => issued[i].id < issued[j].id

\* C2: once save(R) has returned with R.id = id, and id is not otherwise present
\* in the collection, the next findById(id) returns a record with identifier id.
C2_FindByIdAfterSave ==
  \A s \in Slots :
    ( /\ Done(s)
      /\ ops[s].kind = "findById"
      /\ prev.kind = "save"
      /\ prev.pc = "done"
      /\ prev.dao = ops[s].dao
      /\ objId[prev.arg] = ops[s].id
      /\ ops[s].resp.j = "array" =>
            Cardinality({i \in 1..Len(ops[s].resp.rows) : ops[s].resp.rows[i].id = ops[s].id}) <= 1 )
    => ( /\ ops[s].ret.t = "obj"
         /\ IdOf(ops[s].ret.v) = ops[s].id )

\* C3: a deleteAll() that has returned followed by findAll() on the same record
\* type yields an empty sequence.
C3_DeleteAllThenFindAll ==
  \A s \in Slots :
    ( /\ Done(s)
      /\ ops[s].kind = "findAll"
      /\ prev.kind = "deleteAll"
      /\ prev.pc = "done"
      /\ prev.dao = ops[s].dao )
    => ops[s].ret.v = <<>>

\* the step completes a save in slot s
CompletesSave(s) ==
  /\ ops'[s].kind = "save"
  /\ ops'[s].pc = "done"
  /\ ops[s].pc # "done" \/ ops'[s].n # ops[s].n

\* an earlier save gave instance r an id of its own, every write sent so far was
\* served, and the stored collection holds the id
Persisted(r, t) ==
  /\ objId[r] # 0
  /\ \A q \in Insts \ {r} : objId[q] # objId[r]
  /\ net = {}
  /\ lost = {}
  /\ objId[r] \in RowIds(Stored(t))

\* C4: save on an instance an earlier save persisted updates it: the instance
\* keeps its identifier, no identifier is allocated, and the collection gains no
\* record, whatever reads came between the two saves.
C4_SaveAgainUpdates ==
  [][\A s \in Slots :
       ( /\ CompletesSave(s)
         /\ Persisted(ops'[s].arg, ops'[s].type)
         /\ prev'.kind = "read"
         /\ prev'.pc = "done" ) =>
         /\ objId' = objId
         /\ issued' = issued
         /\ \A m \in net' \ net : Len(m.body.rows) = Len(Stored(ops'[s].type).rows)]_vars

IsWrite(req) == req.method \in {"PUT", "PATCH", "DELETE"}

\* delete in slot s returns, its argument's id not among the ids it read
DeleteMisses(s) ==
  /\ ops[s].kind = "delete"
  /\ ops[s].pc = "findAllRet"
  /\ ops'[s].pc = "done"
  /\ objId[ops[s].arg] \notin RowIds(ops[s].resp)

\* C5: delete(R) for an R whose identifier is not in the stored collection
\* issues no write, returns R unchanged and leaves the stored collection as it is.
C5_DeleteAbsentIsNoOp ==
  [][\A s \in Slots :
       DeleteMisses(s) =>
         /\ net' = net
         /\ store' = store
         /\ objId' = objId
         /\ ops'[s].ret = [t |-> "obj", v |-> Entity(ops[s].arg, 0)]
         /\ \A i \in 1..Len(ops'[s].reqs) : ~IsWrite(ops'[s].reqs[i])]_vars

\* a delete has returned without finding its argument's id among the stored ids
C5_Witness ==
  \E s \in Slots :
    /\ Done(s)
    /\ ops[s].kind = "delete"
    /\ RowIds(ops[s].resp) # {}
    /\ objId[ops[s].arg] \notin RowIds(ops[s].resp)

\* the path the documentation gives a record type: the override without its
\* leading separator, or the lower-cased class name
DocumentedPath(t) ==
  IF HasStaticPath(t)
    THEN IF StartsWith(StaticPath(t), SSlash)
           THEN Substring(StaticPath(t), 1, Len(StaticPath(t)))
           ELSE StaticPath(t)
    ELSE ToLowerCase(ClassName(t))

\* C6: the collection path of every request URL is the override with its leading
\* separator stripped, and the lower-cased type name when there is no override.
C6_ResolvedPath ==
  /\ \A d \in 1..Len(daos) :
       ~daos[d].needsInitPath => daos[d].path = DocumentedPath(daos[d].type)
  /\ \A s \in Slots :
       ops[s].reqs # <<>> =>
         ops[s].reqs[1].path = orms[daos[ops[s].dao].orm] \o SSlash \o DocumentedPath(ops[s].type) \o SJson

\* C7: no operation reports success after one of its own requests failed.
C7_FailurePropagates == \A s \in Slots : Done(s) => ops[s].n \notin lost

\* C8: within one store connection every resolve of a record type returns the
\* DataAccessObject created on the first resolve, the registry never drops or
\* replaces an entry, and different types resolve to different instances.
C8_RegistryMemoizes ==
  [][/\ \A t \in Types : registry[cur][t] # 0 => registry'[cur][t] = registry[cur][t]
     /\ \A s \in Slots :
          ops'[s].n # ops[s].n =>
            /\ ops'[s].dao = registry'[cur][ops'[s].type]
            /\ daos'[ops'[s].dao].type = ops'[s].type
     /\ \A t1, t2 \in Types :
          (t1 # t2 /\ registry'[cur][t1] # 0) => registry'[cur][t1] # registry'[cur][t2]]_vars

\* a second operation resolved the record type of the one before it, and got the
\* same DataAccessObject
C8_Witness ==
  /\ nOps = 2
  /\ prev.dao # 0
  /\ ops[1].dao = prev.dao
  /\ ops[1].type = "AnimalOverride"

\* C9: without a transport failure findById, first and last do not fail: on an
\* absent or empty collection each returns undefined, and findById(id) returns
\* undefined whenever no stored record has identifier id.
C9_AbsentIsNotAFailure ==
  \A s \in Slots :
    ops[s].kind \in {"findById", "first", "last"} =>
      /\ ops[s].pc = "failed" => ops[s].n \in lost
      /\ (Done(s) /\ RowIds(ops[s].resp) = {}) => ops[s].ret = Undefined
      /\ (Done(s) /\ ops[s].kind = "findById" /\ ops[s].id \notin RowIds(ops[s].resp))
           => ops[s].ret = Undefined

\* findById has returned undefined for an id none of the stored records has
C9_Witness ==
  \E s \in Slots :
    /\ Done(s)
    /\ ops[s].kind = "findById"
    /\ RowIds(ops[s].resp) # {}
    /\ ops[s].id \notin RowIds(ops[s].resp)
    /\ ops[s].ret = Undefined

\* the body of the PUT with which the save in slot s pushed the local cache
PushOf(s) == ops[s].reqs[Len(ops[s].reqs)].body

\* two create saves of different instances ran concurrently on one record type,
\* both have returned, and every write they sent was served
TwoCreatesSettled ==
  /\ \A s \in Slots : Done(s) /\ ops[s].kind = "save" /\ Len(ops[s].reqs) > 1
  /\ ops[1].arg # ops[2].arg
  /\ ops[1].dao = ops[2].dao
  /\ net = {}
  /\ lost = {}

\* C10: two concurrent create saves can both return and leave only one of the
\* two records stored: every create save pushes the full local cache with its own
\* record in it, and a push the store serves overwrites the whole collection, so
\* the push served last decides what is stored.
C10_LastPushWins ==
  [][/\ \A s \in Slots :
          (CompletesSave(s) /\ Len(ops'[s].reqs) > 1) =>
            \E m \in net' :
              /\ m.op = ops'[s].n
              /\ m.body = PushOf(s)'
              /\ \E i \in 1..Len(m.body.rows) : m.body.rows[i].id = objId'[ops'[s].arg]
     /\ \A m \in net :
          (m.method = "PUT" /\ net' = net \ {m} /\ lost = {} /\ lost' = {}) =>
            Read(m.path)' = m.body]_vars

\* both saves returned, nothing is in flight, and the stored collection holds one
\* record where two were saved under different identifiers
C10_Witness ==
  /\ TwoCreatesSettled
  /\ nOps = 2
  /\ objId[ops[1].arg] # objId[ops[2].arg]
  /\ Stored("Animal").j = "array"
  /\ Len(Stored("Animal").rows) = 1

\* next in slot s goes on from the pool document it read
NextReturns(s) == ops[s].pc = "gotPool" /\ ops'[s].pc # "gotPool"

\* C11: two concurrent next() calls can read the same Identifier Pool value
\* before either writes back and return the same identifier: reading the pool
\* changes nothing in the store, next returns one more than the number it read
\* (1 when it read no pool), whatever was written in between, and save assigns
\* what next returned.
C11_SameReadSameId ==
  [][/\ \A s \in Slots :
          (ops[s].pc = "wPool" /\ ops'[s].pc = "gotPool") => store' = store
     /\ \A s \in Slots :
          NextReturns(s) =>
            ops'[s].uuid = IF ops[s].pool.j = "null" THEN 1 ELSE ops[s].pool.uuid + 1
     /\ \A s \in Slots :
          (CompletesSave(s) /\ Len(ops'[s].reqs) > 1) =>
            objId'[ops'[s].arg] = ops[s].uuid]_vars

\* two concurrent create saves of different instances both read the same pool
\* document, both returned, and the two instances have the same id
C11_Witness ==
  /\ \A s \in Slots : Done(s) /\ ops[s].kind = "save" /\ Len(ops[s].reqs) > 1
  /\ ops[1].arg # ops[2].arg
  /\ ops[1].pool = StoredPool
  /\ ops[2].pool = StoredPool
  /\ ops[1].reqs[3].method = "PUT"
  /\ ops[2].reqs[3].method = "PUT"
  /\ objId[ops[1].arg] = objId[ops[2].arg]

\* the caller starts save(r) in slot s on record type t, r being an element of the
\* local cache of the type's DataAccessObject
SavesCached(s, t, r) ==
  /\ nOps' = nOps + 1
  /\ ops'[s].n = nOps'
  /\ ops'[s].kind = "save"
  /\ ops'[s].type = t
  /\ ops'[s].arg = r
  /\ registry[cur][t] # 0
  /\ \E i \in 1..Len(daos[registry[cur][t]].dataObjects) :
       daos[registry[cur][t]].dataObjects[i].ref = r

\* the local cache as JSON.stringify writes it
CacheJson(d) ==
  JArray([i \in 1..Len(daos[d].dataObjects) |-> [id |-> IdOf(daos[d].dataObjects[i])]])

\* C12: save(R) with R an element, by identity, of the current local cache takes
\* the update path: no collection read and no Identifier Pool request, R's id, the
\* local cache and the Identifier Pool document unchanged, and exactly one PUT,
\* whose body is the full local cache.
C12_UpdatePath ==
  [][\A s \in Slots, t \in Types, r \in Insts :
       SavesCached(s, t, r) =>
         LET d == registry[cur][t]
         IN  /\ ops'[s].pc = "done"
             /\ ops'[s].ret = [t |-> "obj", v |-> Entity(r, 0)]
             /\ Len(ops'[s].reqs) = 1
             /\ ops'[s].reqs[1].method = "PUT"
             /\ ops'[s].reqs[1].body = CacheJson(d)
             /\ \E m \in net' : /\ net' \ net = {m}
                                 /\ Logged(m) = ops'[s].reqs[1]
                                 /\ m.path # PoolPath(cur)
             /\ objId' = objId
             /\ issued' = issued
             /\ daos'[d].dataObjects = daos[d].dataObjects
             /\ store' = store]_vars

\* a save of an instance the save before it had pushed on the local cache has
\* returned after one request
C12_Witness ==
  \E s \in Slots :
    /\ Done(s)
    /\ ops[s].kind = "save"
    /\ Len(ops[s].reqs) = 1
    /\ prev.kind = "save"
    /\ prev.pc = "done"
    /\ prev.arg = ops[s].arg
    /\ prev.dao = ops[s].dao

\* the rows of a collection document (none when there is no document)
RowsOf(json) == IF json.j = "array" THEN json.rows ELSE <<>>

\* C13: a create save(R) no other operation interleaves with reads the
\* collection, then has one identifier allocated and assigned to R, then appends R
\* to the local cache, then issues one PUT: its requests are, in this order, the
\* GET of the collection, the GET and the write of the Identifier Pool and the PUT
\* of the collection, and the PUT body is the rows that GET returned followed by R
\* with the allocated id.
C13_CreatePath ==
  \A s \in Slots :
    (Done(s) /\ ops[s].kind = "save" /\ Len(ops[s].reqs) > 1) =>
      LET q == ops[s].reqs
          d == ops[s].dao
          rows == RowsOf(ops[s].resp)
      IN  /\ Len(q) = 4
          /\ q[1] = Request("GET", GetJSONPath(daos[d]), Null)
          /\ q[2] = Request("GET", PoolPath(daos[d].orm), Null)
          /\ q[3].path = PoolPath(daos[d].orm)
          /\ q[3].method \in {"PUT", "PATCH"}
          /\ q[3].body = JPool(ops[s].uuid)
          /\ q[4].method = "PUT"
          /\ q[4].path = GetJSONPath(daos[d])
          /\ q[4].body = JArray(rows \o <<[id |-> ops[s].uuid]>>)
          /\ objId[ops[s].arg] = ops[s].uuid
          /\ daos[d].dataObjects =
               [i \in 1..Len(rows) |-> Entity(0, rows[i].id)] \o <<Entity(ops[s].arg, 0)>>

\* a create save has returned that had read two stored records
C13_Witness ==
  \E s \in Slots :
    /\ Done(s)
    /\ ops[s].kind = "save"
    /\ Len(ops[s].reqs) = 4
    /\ Len(RowsOf(ops[s].resp)) = 2
    /\ Len(ops[s].reqs[4].body.rows) = 3

\* the first row of rows with identifier id
FirstWithId(rows, id) ==
  CHOOSE i \in 1..Len(rows) : rows[i].id = id /\ \A k \in 1..(i - 1) : rows[k].id # id

DeleteServed(s) == ops[s].pc = "wDelete" /\ ops'[s].pc = "deleted"

\* C15: deleteAll() on any record type deletes only that type's collection
\* document and clears that DataAccessObject's local cache; the Identifier Pool
\* document is left as it is (so that later identifiers stay above earlier ones).
C15_DeleteAllKeepsPool ==
  [][\A s \in Slots :
       /\ DeleteServed(s) =>
            /\ Read(PoolPath(daos[ops[s].dao].orm))' = Read(PoolPath(daos[ops[s].dao].orm))
            /\ \A p \in DOMAIN store :
                 p # GetJSONPath(daos[ops[s].dao]) => (p \in DOMAIN store' /\ store'[p] = store[p])
       /\ (ops[s].pc = "deleted" /\ ops'[s].pc = "done") =>
            daos'[ops[s].dao].dataObjects = <<>>]_vars

\* the collection document of record type t at ORM o's store
CollectionOf(o, t) == orms[o] \o SSlash \o InitPath(t) \o SJson

\* the operation in slot s has sent a write to the collection document of record
\* type t
WritesTo(s, t) ==
  \E i \in 1..Len(ops[s].reqs) :
    /\ IsWrite(ops[s].reqs[i])
    /\ ops[s].reqs[i].path = CollectionOf(daos[ops[s].dao].orm, t)

\* a local cache changes only in a step of an operation on its DataAccessObject
CachesApart ==
  \A d \in 1..Len(daos) :
    daos'[d].dataObjects # daos[d].dataObjects =>
      \E s \in Slots : ops'[s] # ops[s] /\ ops'[s].dao = d /\ ops'[s].type = daos[d].type

\* C17 as stated: no operation on one record type changes the stored collection
\* document or the local cache of a different record type.
C17_TypesIndependent ==
  [][/\ \A s \in Slots, t \in PathTypes :
          (ops'[s].kind # "none" /\ t # ops'[s].type) => ~WritesTo(s, t)'
     /\ CachesApart]_vars

\* the record types t1 and t2 resolve to different paths, none of them the name
\* of the identifier pool's document
PathsApart(t1, t2) ==
  /\ InitPath(t1) # InitPath(t2)
  /\ InitPath(t1) # SUuid
  /\ InitPath(t2) # SUuid

\* C17, amended: no operation on one record type changes the stored collection
\* document or the local cache of a different record type, when the two types
\* resolve to different collection paths and neither path is the name of the
\* Identifier Pool document.
C17_DistinctPathsIndependent ==
  [][/\ \A s \in Slots, t \in PathTypes :
          (ops'[s].kind # "none" /\ t # ops'[s].type /\ PathsApart(ops'[s].type, t)) =>
            ~WritesTo(s, t)'
     /\ CachesApart]_vars

\* a save on Animal and then a save on AnimalOverride have returned and their
\* writes were served: each collection holds the one record saved to it
C17_Witness ==
  /\ prev.kind = "save"
  /\ prev.pc = "done"
  /\ Done(1)
  /\ ops[1].kind = "save"
  /\ ops[1].type = "AnimalOverride"
  /\ daos[prev.dao].type = "Animal"
  /\ net = {}
  /\ lost = {}
  /\ Len(RowsOf(Read(CollectionOf(cur, "Animal")))) = 1
  /\ Len(RowsOf(Read(CollectionOf(cur, "AnimalOverride")))) = 1
  /\ Len(daos[prev.dao].dataObjects) = 1

\* findAll in slot s goes on from the response of its GET
FindAllReturns(s) == ops[s].pc = "gotJson" /\ ops'[s].pc = "findAllRet"

\* the operations built on findAll: the reads, delete and the create save
UsesFindAll(op) ==
  \/ op.kind \in ReadKinds \cup {"delete"}
  \/ op.kind = "save" /\ Len(op.reqs) # 1

AllocationFails(s) ==
  /\ ops[s].kind = "save"
  /\ ops[s].pc \in {"wPool", "wPoolPut"}
  /\ ops'[s].n = ops[s].n
  /\ ops[s].n \notin lost
  /\ ops[s].n \in lost'

\* C18: when the Identifier Pool read or its update write fails during a create
\* save(R), save fails to its caller, R's id keeps the value it had before the
\* call, R is not appended to the local cache, and no collection PUT is issued.
C18_AllocationFailure ==
  [][/\ \A s \in Slots :
          AllocationFails(s) =>
            /\ ops'[s].pc = "failed"
            /\ objId' = objId
            /\ daos' = daos
            /\ net' = net
            /\ \A i \in 1..Len(daos[ops[s].dao].dataObjects) :
                 daos[ops[s].dao].dataObjects[i].ref # ops[s].arg
            /\ \A i \in 1..Len(ops'[s].reqs) :
                 ops'[s].reqs[i].path = GetJSONPath(daos[ops[s].dao]) =>
                   ops'[s].reqs[i].method = "GET"
     /\ \A r \in Insts :
          objId'[r] # objId[r] => \E s \in Slots : ops[s].pc = "nextRet" /\ ops[s].arg = r
     /\ \A s \in Slots :
          (ops[s].pc = "failed" /\ ops'[s].n = ops[s].n) => ops'[s] = ops[s]]_vars

\* the save of the instance that carries a stored record's id has failed at the
\* PUT that writes the Identifier Pool back
C18_Witness ==
  \E s \in Slots :
    /\ ops[s].kind = "save"
    /\ ops[s].pc = "failed"
    /\ Len(ops[s].reqs) = 3
    /\ ops[s].reqs[3].method = "PUT"
    /\ ops[s].reqs[3].path = PoolPath(cur)
    /\ objId[ops[s].arg] # 0
    /\ Len(daos[ops[s].dao].dataObjects) = 2

\* the delete in slot s sends its PUT
DeletePuts(s) ==
  /\ ops[s].kind = "delete"
  /\ ops[s].pc = "findAllRet"
  /\ ops'[s].pc = "done"
  /\ Len(ops'[s].reqs) > Len(ops[s].reqs)

\* C19: however operations on one DataAccessObject interleave at their awaits,
\* the PUT of a delete(R) that found R.id carries the list delete removed the
\* record from: the body is the array findAll returned to delete, without the
\* record delete removed.
C19_DeletePutsWhatItCut ==
  [][\A s \in Slots :
       DeletePuts(s) =>
         LET list == LocalArr(s)
             i == FindIndex(list, objId[ops[s].arg])
         IN  ops'[s].reqs[Len(ops'[s].reqs)].body =
               JArray([k \in 1..(Len(list) - 1) |->
                         [id |-> IdOf(IF k < i THEN list[k] ELSE list[k + 1])]])]_vars

\* the caller starts an operation in slot s
Starts(s) == ops'[s].n # ops[s].n

\* C20: every static operation resolves through the one module-wide repository,
\* which each ORM construction replaces: after a further ORM is constructed,
\* every record type resolves to a new DataAccessObject with an empty local cache
\* bound to that ORM, and no operation started afterwards reaches a
\* DataAccessObject of an earlier ORM or a URL other than the newest ORM's.
C20_NewOrmReplacesRegistry ==
  [][/\ Len(orms') # Len(orms) =>
          /\ cur' = Len(orms')
          /\ \A t \in Declared : registry'[cur'][t] = 0
          /\ daos' = daos
     /\ \A s \in Slots :
          Starts(s) =>
            LET d == ops'[s].dao
                t == ops'[s].type
            IN  /\ daos'[d].orm = cur
                /\ daos'[d].type = t
                /\ registry'[cur][t] = d
                /\ registry[cur][t] = 0 => (d = Len(daos) + 1 /\ daos'[d].dataObjects = <<>>)
                /\ \A o \in 1..Len(orms) : o # cur => registry[o][t] # d
     /\ \A s \in Slots : \A i \in 1..Len(ops'[s].reqs) :
          LET url == orms'[daos'[ops'[s].dao].orm]
              path == ops'[s].reqs[i].path
          IN  /\ StartsWith(path, url \o SSlash)
              /\ \A o \in 1..Len(orms') : orms'[o] # url => ~StartsWith(path, orms'[o] \o SSlash)]_vars

\* after a save on the first ORM left a record in its DataAccessObject's cache, a
\* second ORM was constructed with another URL and a findAll of the same record
\* type has returned: it ran on a second DataAccessObject, bound to the second ORM
C20_Witness ==
  /\ Len(orms) = 2
  /\ orms[1] # orms[2]
  /\ Len(daos) = 2
  /\ daos[1].orm = 1
  /\ daos[1].dataObjects # <<>>
  /\ daos[2].orm = 2
  /\ daos[2].type = daos[1].type
  /\ Done(1)
  /\ ops[1].kind = "findAll"
  /\ ops[1].dao = 2
  /\ ops[1].ret = [t |-> "arr", v |-> <<>>]

====
